---- MODULE Spec2Model ----
(***************************************************************************)
(* Model of .insert_handlers.py: a one-shot script that reads a target     *)
(* file as lines, reads an insertion file as lines, splices the second     *)
(* into the first at a fixed line index and writes the target back.        *)
(*                                                                         *)
(* Files hold bytes.  Reading decodes them (UTF-8), translates "\r\n" and  *)
(* "\r" to "\n" (Python's universal newlines) and splits after every "\n". *)
(* Writing concatenates the lines, translates "\n" to the platform's line  *)
(* separator and puts the bytes in the handle's buffer, which reaches the  *)
(* file when the buffer overflows or when the handle is closed.            *)
(***************************************************************************)
EXTENDS Integers, Sequences, FiniteSets, TLC

\* ------------------------------------------------------------------------
\* Bounds of the model
MaxTargetLen == 3
MaxInsertionLen == 2
MaxIndex == 3

\* ------------------------------------------------------------------------
\* Bytes and characters
LF == "\n"
CR == "\r"
BAD == "<ff>"

TargetPath == "src/components/player/playerController.ts"
InsertionPath == ".tmp_touch_handlers.txt"
Paths == {TargetPath, InsertionPath}

SuccessMessage == "Touch handlers inserted successfully"

\* What a path holds when no file exists there.
NoFile == <<"<ENOENT>">>

Min(a, b) == IF a < b THEN a ELSE b

RECURSIVE SeqsUpTo(_, _)
SeqsUpTo(S, n) ==
    IF n = 0 THEN {<<>>}
    ELSE LET shorter == SeqsUpTo(S, n - 1)
         IN  shorter \cup {Append(s, c) : s \in shorter, c \in S}

\* File contents the model starts from: every text of "\n"-terminated and
\* unterminated lines up to the bound, some texts with "\r\n" and "\r"
\* terminators, and some that are not UTF-8.
TargetContents ==
    SeqsUpTo({"a", LF}, MaxTargetLen)
        \cup {<<"a", CR, LF>>, <<CR, "a">>, <<"a", CR>>, <<BAD>>, <<"a", BAD>>}

InsertionContents ==
    SeqsUpTo({"X", LF}, MaxInsertionLen)
        \cup {<<"X", CR, LF>>, <<"X", CR>>, <<BAD>>}

\* ------------------------------------------------------------------------
\* Text I/O
Decodable(bytes) == \A k \in 1..Len(bytes) : bytes[k] # BAD

RECURSIVE TranslateRead(_)
TranslateRead(s) ==
    IF s = <<>> THEN <<>>
    ELSE IF Head(s) = CR
         THEN IF Len(s) > 1 /\ s[2] = LF
              THEN <<LF>> \o TranslateRead(Tail(Tail(s)))
              ELSE <<LF>> \o TranslateRead(Tail(s))
         ELSE <<Head(s)>> \o TranslateRead(Tail(s))

RECURSIVE SplitLines(_, _)
SplitLines(text, cur) ==
    IF text = <<>>
    THEN IF cur = <<>> THEN <<>> ELSE <<cur>>
    ELSE IF Head(text) = LF
         THEN <<Append(cur, LF)>> \o SplitLines(Tail(text), <<>>)
         ELSE SplitLines(Tail(text), Append(cur, Head(text)))

ReadText(bytes) == TranslateRead(bytes)

readlines(bytes) == SplitLines(ReadText(bytes), <<>>)

RECURSIVE Flatten(_)
Flatten(ls) == IF ls = <<>> THEN <<>> ELSE Head(ls) \o Flatten(Tail(ls))

RECURSIVE TranslateWrite(_, _)
TranslateWrite(text, sep) ==
    IF text = <<>> THEN <<>>
    ELSE IF Head(text) = LF
         THEN sep \o TranslateWrite(Tail(text), sep)
         ELSE <<Head(text)>> \o TranslateWrite(Tail(text), sep)

\* A writer that ends every line it writes with a terminator.
RECURSIVE TerminateAll(_)
TerminateAll(ls) ==
    IF ls = <<>> THEN <<>>
    ELSE LET l == Head(ls)
         IN  <<IF l # <<>> /\ l[Len(l)] = LF THEN l ELSE Append(l, LF)>>
             \o TerminateAll(Tail(ls))

writelinesTerminating(ls, sep) == TranslateWrite(Flatten(TerminateAll(ls)), sep)

writelines(ls, sep) == TranslateWrite(Flatten(ls), sep)

\* ------------------------------------------------------------------------
\* The splice
SliceTo(s, i) == SubSeq(s, 1, Min(i, Len(s)))

SliceFrom(s, i) == SubSeq(s, Min(i, Len(s)) + 1, Len(s))

\* Variants of the splice that differ from the script's expression.
SpliceOffByOne(ls, hs, i) == SliceTo(ls, i + 1) \o hs \o SliceFrom(ls, i + 1)

SpliceIfAbsent(ls, hs, i) ==
    IF SubSeq(ls, Min(i, Len(ls)) + 1, Min(Min(i, Len(ls)) + Len(hs), Len(ls))) = hs
    THEN ls
    ELSE SliceTo(ls, i) \o hs \o SliceFrom(ls, i)

SpliceWithinOnly(ls, hs, i) ==
    IF i > Len(ls) THEN ls ELSE SliceTo(ls, i) \o hs \o SliceFrom(ls, i)

Splice(ls, hs, i) == SliceTo(ls, i) \o hs \o SliceFrom(ls, i)

\* ------------------------------------------------------------------------
\* State
VARIABLES
    fs,         \* path -> bytes of the file, or NoFile
    linesep,    \* os.linesep of the platform
    idx,        \* the insertion index (633 in the script)
    pc,         \* the statement the run is at
    lines,      \* the script's variable lines
    handlers,   \* the script's variable handlers
    result,     \* the script's variable result
    handles,    \* the open file handles
    buf,        \* bytes written to the write handle and not yet in the file
    stdout,     \* what the run printed
    status,     \* "running", "success" or "failure"
    err,        \* the error that ended the run, or "none"
    errAt,      \* the statement that raised it, or "none"
    run,        \* 1 for the first run, 2 for the run after it
    fs0,        \* the files when the current run started
    log,        \* the file operations of the current run, in order
    prev        \* how the previous run ended

vars == <<fs, linesep, idx, pc, lines, handlers, result, handles, buf,
          stdout, status, err, errAt, run, fs0, log, prev>>

NoPrev == [status |-> "none", out |-> <<>>, lines |-> <<>>, handlers |-> <<>>]

Handle(path, mode) == [path |-> path, mode |-> mode]

Init ==
    /\ fs \in [Paths -> TargetContents \cup InsertionContents \cup {NoFile}]
    /\ fs[TargetPath] \in TargetContents \cup {NoFile}
    /\ fs[InsertionPath] \in InsertionContents \cup {NoFile}
    /\ linesep \in {<<LF>>, <<CR, LF>>}
    /\ idx \in 0..MaxIndex
    /\ pc = "open_target_r"
    /\ lines = <<>>
    /\ handlers = <<>>
    /\ result = <<>>
    /\ handles = {}
    /\ buf = <<>>
    /\ stdout = <<>>
    /\ status = "running"
    /\ err = "none"
    /\ errAt = "none"
    /\ run = 1
    /\ fs0 = fs
    /\ log = <<>>
    /\ prev = NoPrev

\* An uncaught exception: the handle the statement held is closed while the
\* exception unwinds the with block, and the interpreter exits with failure.
Raise(kind, held) ==
    /\ pc' = "failed"
    /\ status' = "failure"
    /\ err' = kind
    /\ errAt' = pc
    /\ handles' = handles \ held

OpenError(path) == IF fs[path] = NoFile THEN "FileNotFound" ELSE "PermissionDenied"

ReadError(path) == IF Decodable(fs[path]) THEN "IoError" ELSE "DecodeError"

\* ------------------------------------------------------------------------
\* with open(target, 'r', encoding='utf-8') as f: lines = f.readlines()
\* The target opened in a mode that truncates it.
OpenTargetReadTruncating ==
    /\ pc = "open_target_r"
    /\ fs[TargetPath] # NoFile
    /\ fs' = [fs EXCEPT ![TargetPath] = <<>>]
    /\ handles' = handles \cup {Handle(TargetPath, "r")}
    /\ log' = Append(log, <<"open_r", TargetPath>>)
    /\ pc' = "read_target"
    /\ UNCHANGED <<linesep, idx, lines, handlers, result, buf, stdout,
                   status, err, errAt, run, fs0, prev>>

OpenTargetRead ==
    /\ pc = "open_target_r"
    /\ fs[TargetPath] # NoFile
    /\ handles' = handles \cup {Handle(TargetPath, "r")}
    /\ log' = Append(log, <<"open_r", TargetPath>>)
    /\ pc' = "read_target"
    /\ UNCHANGED <<fs, linesep, idx, lines, handlers, result, buf, stdout,
                   status, err, errAt, run, fs0, prev>>

OpenTargetReadFail ==
    /\ pc = "open_target_r"
    /\ Raise(OpenError(TargetPath), {})
    /\ UNCHANGED <<fs, linesep, idx, lines, handlers, result, buf, stdout,
                   run, fs0, log, prev>>

ReadTarget ==
    /\ pc = "read_target"
    /\ Decodable(fs[TargetPath])
    /\ lines' = readlines(fs[TargetPath])
    /\ log' = Append(log, <<"read", TargetPath>>)
    /\ pc' = "close_target_r"
    /\ UNCHANGED <<fs, linesep, idx, handlers, result, handles, buf, stdout,
                   status, err, errAt, run, fs0, prev>>

ReadTargetFail ==
    /\ pc = "read_target"
    /\ Raise(ReadError(TargetPath), {Handle(TargetPath, "r")})
    /\ UNCHANGED <<fs, linesep, idx, lines, handlers, result, buf, stdout,
                   run, fs0, log, prev>>

\* The write begun right after the target was read.
CloseTargetReadThenWrite ==
    /\ pc = "close_target_r"
    /\ handles' = handles \ {Handle(TargetPath, "r")}
    /\ log' = Append(log, <<"close_r", TargetPath>>)
    /\ pc' = "open_target_w"
    /\ UNCHANGED <<fs, linesep, idx, lines, handlers, result, buf, stdout,
                   status, err, errAt, run, fs0, prev>>

CloseTargetRead ==
    /\ pc = "close_target_r"
    /\ handles' = handles \ {Handle(TargetPath, "r")}
    /\ log' = Append(log, <<"close_r", TargetPath>>)
    /\ pc' = "open_insertion_r"
    /\ UNCHANGED <<fs, linesep, idx, lines, handlers, result, buf, stdout,
                   status, err, errAt, run, fs0, prev>>

\* ------------------------------------------------------------------------
\* with open(insertion, 'r', encoding='utf-8') as f: handlers = f.readlines()
OpenInsertionRead ==
    /\ pc = "open_insertion_r"
    /\ fs[InsertionPath] # NoFile
    /\ handles' = handles \cup {Handle(InsertionPath, "r")}
    /\ log' = Append(log, <<"open_r", InsertionPath>>)
    /\ pc' = "read_insertion"
    /\ UNCHANGED <<fs, linesep, idx, lines, handlers, result, buf, stdout,
                   status, err, errAt, run, fs0, prev>>

OpenInsertionReadFail ==
    /\ pc = "open_insertion_r"
    /\ Raise(OpenError(InsertionPath), {})
    /\ UNCHANGED <<fs, linesep, idx, lines, handlers, result, buf, stdout,
                   run, fs0, log, prev>>

ReadInsertion ==
    /\ pc = "read_insertion"
    /\ Decodable(fs[InsertionPath])
    /\ handlers' = readlines(fs[InsertionPath])
    /\ log' = Append(log, <<"read", InsertionPath>>)
    /\ pc' = "close_insertion_r"
    /\ UNCHANGED <<fs, linesep, idx, lines, result, handles, buf, stdout,
                   status, err, errAt, run, fs0, prev>>

\* A failed read that leaves its handle open.
ReadInsertionFailLeak ==
    /\ pc = "read_insertion"
    /\ Raise(ReadError(InsertionPath), {})
    /\ UNCHANGED <<fs, linesep, idx, lines, handlers, result, buf, stdout,
                   run, fs0, log, prev>>

ReadInsertionFail ==
    /\ pc = "read_insertion"
    /\ Raise(ReadError(InsertionPath), {Handle(InsertionPath, "r")})
    /\ UNCHANGED <<fs, linesep, idx, lines, handlers, result, buf, stdout,
                   run, fs0, log, prev>>

CloseInsertionRead ==
    /\ pc = "close_insertion_r"
    /\ handles' = handles \ {Handle(InsertionPath, "r")}
    /\ log' = Append(log, <<"close_r", InsertionPath>>)
    /\ pc' = "build"
    /\ UNCHANGED <<fs, linesep, idx, lines, handlers, result, buf, stdout,
                   status, err, errAt, run, fs0, prev>>

\* ------------------------------------------------------------------------
\* result = lines[:633] + handlers + lines[633:]
Build ==
    /\ pc = "build"
    /\ result' = Splice(lines, handlers, idx)
    /\ pc' = "open_target_w"
    /\ UNCHANGED <<fs, linesep, idx, lines, handlers, handles, buf, stdout,
                   status, err, errAt, run, fs0, log, prev>>

\* ------------------------------------------------------------------------
\* with open(target, 'w', encoding='utf-8') as f: f.writelines(result)
\* The insertion file opened for writing in place of the target.
OpenInsertionWrite ==
    /\ pc = "open_target_w"
    /\ fs' = [fs EXCEPT ![InsertionPath] = <<>>]
    /\ handles' = handles \cup {Handle(InsertionPath, "w")}
    /\ buf' = <<>>
    /\ log' = Append(log, <<"open_w", InsertionPath>>)
    /\ pc' = "writelines"
    /\ UNCHANGED <<linesep, idx, lines, handlers, result, stdout, status,
                   err, errAt, run, fs0, prev>>

OpenTargetWrite ==
    /\ pc = "open_target_w"
    /\ fs' = [fs EXCEPT ![TargetPath] = <<>>]
    /\ handles' = handles \cup {Handle(TargetPath, "w")}
    /\ buf' = <<>>
    /\ log' = Append(log, <<"open_w", TargetPath>>)
    /\ pc' = "writelines"
    /\ UNCHANGED <<linesep, idx, lines, handlers, result, stdout, status,
                   err, errAt, run, fs0, prev>>

OpenTargetWriteFail ==
    /\ pc = "open_target_w"
    /\ Raise("PermissionDenied", {})
    /\ UNCHANGED <<fs, linesep, idx, lines, handlers, result, buf, stdout,
                   run, fs0, log, prev>>

\* writelines puts the encoded text in the handle's buffer; the part of it
\* that overflows the buffer (any prefix, its size being the buffer's
\* business) is written to the file at once.
WriteLines ==
    /\ pc = "writelines"
    /\ LET bytes == writelines(result, linesep)
       IN  \E k \in 0..Len(bytes) :
             /\ fs' = [fs EXCEPT ![TargetPath] = @ \o SubSeq(bytes, 1, k)]
             /\ buf' = SubSeq(bytes, k + 1, Len(bytes))
    /\ log' = Append(log, <<"write", TargetPath>>)
    /\ pc' = "close_target_w"
    /\ UNCHANGED <<linesep, idx, lines, handlers, result, handles, stdout,
                   status, err, errAt, run, fs0, prev>>

\* A failed write followed by putting the original content back.
WriteLinesFailRestore ==
    /\ pc = "writelines"
    /\ fs' = [fs EXCEPT ![TargetPath] = fs0[TargetPath]]
    /\ buf' = <<>>
    /\ Raise("IoError", {Handle(TargetPath, "w")})
    /\ UNCHANGED <<linesep, idx, lines, handlers, result, stdout, run, fs0,
                   log, prev>>

\* A write of the overflow fails (disk full, ...): what was written before it
\* stays in the file, the rest is lost with the handle.
WriteLinesFail ==
    /\ pc = "writelines"
    /\ LET bytes == writelines(result, linesep)
       IN  \E k \in 0..(Len(bytes) - 1) :
             fs' = [fs EXCEPT ![TargetPath] = @ \o SubSeq(bytes, 1, k)]
    /\ buf' = <<>>
    /\ Raise("IoError", {Handle(TargetPath, "w")})
    /\ UNCHANGED <<linesep, idx, lines, handlers, result, stdout, run, fs0,
                   log, prev>>

\* Leaving the with block closes the handle, which flushes the buffer.
CloseTargetWrite ==
    /\ pc = "close_target_w"
    /\ fs' = [fs EXCEPT ![TargetPath] = @ \o buf]
    /\ buf' = <<>>
    /\ handles' = handles \ {Handle(TargetPath, "w")}
    /\ log' = Append(log, <<"close_w", TargetPath>>)
    /\ pc' = "print"
    /\ UNCHANGED <<linesep, idx, lines, handlers, result, stdout, status,
                   err, errAt, run, fs0, prev>>

\* A failed flush whose error is swallowed: the run goes on to the print.
CloseTargetWriteSwallow ==
    /\ pc = "close_target_w"
    /\ \E k \in 0..Len(buf) :
         fs' = [fs EXCEPT ![TargetPath] = @ \o SubSeq(buf, 1, k)]
    /\ buf' = <<>>
    /\ handles' = handles \ {Handle(TargetPath, "w")}
    /\ log' = Append(log, <<"close_w", TargetPath>>)
    /\ pc' = "print"
    /\ UNCHANGED <<linesep, idx, lines, handlers, result, stdout, status,
                   err, errAt, run, fs0, prev>>

\* The flush fails after k bytes of the buffer, or (k = Len(buf)) the flush
\* succeeds and closing the descriptor reports the error.  The handle is
\* closed either way.
CloseTargetWriteFail ==
    /\ pc = "close_target_w"
    /\ \E k \in 0..Len(buf) :
         fs' = [fs EXCEPT ![TargetPath] = @ \o SubSeq(buf, 1, k)]
    /\ buf' = <<>>
    /\ Raise("IoError", {Handle(TargetPath, "w")})
    /\ UNCHANGED <<linesep, idx, lines, handlers, result, stdout, run, fs0,
                   log, prev>>

\* ------------------------------------------------------------------------
\* print("Touch handlers inserted successfully")
PrintSuccess ==
    /\ pc = "print"
    /\ stdout' = Append(stdout, SuccessMessage)
    /\ pc' = "done"
    /\ status' = "success"
    /\ UNCHANGED <<fs, linesep, idx, lines, handlers, result, handles, buf,
                   err, errAt, run, fs0, log, prev>>

\* ------------------------------------------------------------------------
\* After a successful run the script is run once more, on the files the
\* first run left.
Rerun ==
    /\ pc = "done"
    /\ run = 1
    /\ run' = 2
    /\ prev' = [status |-> status, out |-> fs[TargetPath], lines |-> lines,
                handlers |-> handlers]
    /\ fs0' = fs
    /\ pc' = "open_target_r"
    /\ lines' = <<>>
    /\ handlers' = <<>>
    /\ result' = <<>>
    /\ stdout' = <<>>
    /\ status' = "running"
    /\ err' = "none"
    /\ errAt' = "none"
    /\ log' = <<>>
    /\ UNCHANGED <<fs, linesep, idx, handles, buf>>

Next ==
    \/ OpenTargetRead
    \/ OpenTargetReadFail
    \/ ReadTarget
    \/ ReadTargetFail
    \/ CloseTargetRead
    \/ OpenInsertionRead
    \/ OpenInsertionReadFail
    \/ ReadInsertion
    \/ ReadInsertionFail
    \/ CloseInsertionRead
    \/ Build
    \/ OpenTargetWrite
    \/ OpenTargetWriteFail
    \/ WriteLines
    \/ WriteLinesFail
    \/ CloseTargetWrite
    \/ CloseTargetWriteFail
    \/ PrintSuccess
    \/ Rerun

Spec == Init /\ [][Next]_vars

\* ------------------------------------------------------------------------
\* Vocabulary of the properties
T0 == readlines(fs0[TargetPath])

S0 == readlines(fs0[InsertionPath])

Succeeded == status = "success"

Failed == status = "failure"

WriteBegun == \E k \in 1..Len(log) : log[k][1] = "open_w"

Terminated(l) == l # <<>> /\ l[Len(l)] = LF

IsPrefix(p, s) == Len(p) <= Len(s) /\ SubSeq(s, 1, Len(p)) = p

\* T[0:i] ++ S ++ T[i:] for 0 <= i <= Len(T), position by position.
Inserted(T, S, i) ==
    [k \in 1..(Len(T) + Len(S)) |->
        IF k <= i THEN T[k]
        ELSE IF k <= i + Len(S) THEN S[k - i]
        ELSE T[k - Len(S)]]

CountLF(text) == Cardinality({k \in 1..Len(text) : text[k] = LF})

\* s occurs in text twice, the occurrences not overlapping.
TwoCopies(text, s) ==
    \E p, q \in 0..Len(text) :
        /\ p + Len(s) <= q
        /\ q + Len(s) <= Len(text)
        /\ SubSeq(text, p + 1, p + Len(s)) = s
        /\ SubSeq(text, q + 1, q + Len(s)) = s

\* The file operations of a complete run, in the order of the script.
Order ==
    << <<"open_r", TargetPath>>, <<"read", TargetPath>>,
       <<"close_r", TargetPath>>,
       <<"open_r", InsertionPath>>, <<"read", InsertionPath>>,
       <<"close_r", InsertionPath>>,
       <<"open_w", TargetPath>>, <<"write", TargetPath>>,
       <<"close_w", TargetPath>> >>

\* ------------------------------------------------------------------------
\* C1: for a valid index 0 <= i <= Len(T), a successful run has built
\* exactly T[0:i] ++ S ++ T[i:] from the lines T and S it read, and the
\* target file holds the text of that sequence.
C1_SpliceExact ==
    (Succeeded /\ idx <= Len(T0)) =>
        /\ lines = T0
        /\ handlers = S0
        /\ result = Inserted(T0, S0, idx)
        /\ ReadText(fs[TargetPath]) = Flatten(Inserted(T0, S0, idx))

C1_Witness ==
    /\ Succeeded
    /\ 0 < idx
    /\ idx < Len(T0)
    /\ Len(S0) = 2
    /\ fs[TargetPath] # fs0[TargetPath]

\* C2: a run that fails before the target was opened for writing leaves the
\* target file byte for byte as it was when the run started.
C2_FailedReadKeepsTarget ==
    (Failed /\ ~WriteBegun) => fs[TargetPath] = fs0[TargetPath]

C2_Witness ==
    /\ Failed
    /\ err = "FileNotFound"
    /\ fs0[InsertionPath] = NoFile
    /\ Len(fs0[TargetPath]) = MaxTargetLen
    /\ fs[TargetPath] = fs0[TargetPath]

\* C3 as stated: after two successful runs with the same non-empty S and the
\* same index, the target contains two copies of S and differs from the
\* result of the single run.
C3_TwoCopiesAlways ==
    (run = 2 /\ Succeeded /\ handlers # <<>>) =>
        /\ TwoCopies(ReadText(fs[TargetPath]), Flatten(handlers))
        /\ fs[TargetPath] # prev.out

\* C3 amended: the second run splices S again into the lines re-read from
\* the first run's output, so the target grows by the text of S once more
\* and differs from the single run's result; it holds two whole copies of S
\* (adjacent, at index i) when every line of T and S is terminated and the
\* index is not inside the first copy.
C3_SecondRunInsertsAgain ==
    (run = 2 /\ Succeeded /\ handlers # <<>>) =>
        LET T1 == prev.lines
            s  == Flatten(handlers)
            t2 == ReadText(fs[TargetPath])
        IN  /\ handlers = prev.handlers
            /\ lines = readlines(prev.out)
            /\ fs[TargetPath] # prev.out
            /\ t2 # ReadText(prev.out)
            /\ Len(t2) = Len(ReadText(prev.out)) + Len(s)
            /\ ( /\ \A k \in 1..Len(T1) : Terminated(T1[k])
                 /\ \A k \in 1..Len(handlers) : Terminated(handlers[k])
                 /\ (idx <= Len(T1) \/ idx >= Len(T1) + Len(handlers)) )
               => /\ TwoCopies(t2, s)
                  /\ LET i == Min(idx, Len(T1))
                     IN  t2 = Flatten(SubSeq(T1, 1, i)) \o s \o s
                              \o Flatten(SubSeq(T1, i + 1, Len(T1)))

C3_Witness ==
    /\ run = 2
    /\ Succeeded
    /\ Len(handlers) = 2
    /\ Len(prev.lines) = 2
    /\ idx = 1
    /\ \A k \in 1..2 : Terminated(handlers[k]) /\ Terminated(prev.lines[k])
    /\ TwoCopies(ReadText(fs[TargetPath]), Flatten(handlers))

\* C4: with an index beyond the end of the target (i > Len(T)) the build
\* step does not fail and the output is T ++ S, no line dropped or padded.
C4_IndexBeyondEndAppends ==
    /\ (pc = "build") => ENABLED Build
    /\ (idx > Len(lines) /\ (pc = "open_target_w" \/ Succeeded)) =>
          result = lines \o handlers
    /\ (idx > Len(T0) /\ Succeeded) =>
          ReadText(fs[TargetPath]) = Flatten(T0) \o Flatten(S0)

C4_Witness ==
    /\ Succeeded
    /\ idx > Len(T0) + 1
    /\ Len(T0) > 0
    /\ Len(S0) > 0
    /\ result = T0 \o S0

\* C5 as stated: re-reading the written file as lines yields the line
\* sequence that was written, T[0:i] ++ S ++ T[i:].
C5_RereadSameLines ==
    Succeeded => readlines(fs[TargetPath]) = result

\* C5 amended: the written text is the plain concatenation of the lines as
\* read, no terminator added or removed; re-reading it yields the same text,
\* and the same line sequence exactly when every line of the output but the
\* last is terminated (a terminator-less line runs together with the line
\* written after it, so fewer lines are read back).
C5_PlainConcatenation ==
    Succeeded =>
        LET text == ReadText(fs[TargetPath])
            back == readlines(fs[TargetPath])
            AllButLastTerminated ==
                \A k \in 1..(Len(result) - 1) : Terminated(result[k])
        IN  /\ text = Flatten(result)
            /\ text = Flatten(SliceTo(lines, idx)) \o Flatten(handlers)
                      \o Flatten(SliceFrom(lines, idx))
            /\ CountLF(text) = CountLF(Flatten(lines)) + CountLF(Flatten(handlers))
            /\ Flatten(back) = Flatten(result)
            /\ AllButLastTerminated <=> (back = result)
            /\ ~AllButLastTerminated => Len(back) < Len(result)

C5_Witness ==
    /\ Succeeded
    /\ Len(lines) = 2
    /\ ~Terminated(lines[2])
    /\ idx >= 2
    /\ handlers # <<>>
    /\ ReadText(fs[TargetPath]) = Flatten(lines) \o Flatten(handlers)
    /\ Len(readlines(fs[TargetPath])) < Len(result)

\* C6: no step of any run changes the insertion file, and no handle on it
\* is ever open for writing.
C6_InsertionUntouched ==
    [][ /\ fs'[InsertionPath] = fs[InsertionPath]
        /\ \A h \in handles' : h.path = InsertionPath => h.mode = "r" ]_vars

C6_Witness ==
    /\ Succeeded
    /\ fs[TargetPath] # fs0[TargetPath]
    /\ fs[InsertionPath] = fs0[InsertionPath]
    /\ Len(fs[InsertionPath]) = MaxInsertionLen

\* C7: the confirmation is on stdout only when the whole output is in the
\* target file and the write handle is closed; a failed run has a failure
\* status and printed nothing.
C7_SuccessOnlyAfterCompleteWrite ==
    /\ (stdout # <<>>) =>
          /\ stdout = <<SuccessMessage>>
          /\ Succeeded
          /\ fs[TargetPath] = writelines(result, linesep)
          /\ buf = <<>>
          /\ handles = {}
          /\ log = Order
    /\ Succeeded => stdout # <<>>
    /\ (pc = "failed") => (Failed /\ err # "none" /\ stdout = <<>>)
    /\ ~(pc \in {"failed", "done"}) => (status = "running" /\ stdout = <<>>)

C7_Witness ==
    /\ pc = "failed"
    /\ errAt = "close_target_w"
    /\ fs[TargetPath] # writelines(result, linesep)
    /\ fs[TargetPath] # <<>>
    /\ stdout = <<>>

\* C8 as stated: an error in the write step leaves the target truncated or
\* holding a proper prefix of the output.
C8_WriteErrorLeavesProperPrefix ==
    (Failed /\ errAt \in {"open_target_w", "writelines", "close_target_w"}) =>
        /\ IsPrefix(fs[TargetPath], writelines(result, linesep))
        /\ (fs[TargetPath] = <<>> \/ fs[TargetPath] # writelines(result, linesep))

\* C8 amended: the first error ends the run, no step follows it.  An error
\* after the target was opened for writing leaves the target holding a
\* prefix of the output (empty, partial, or all of it when only the close
\* failed), a proper one when writelines itself failed; an error opening the
\* target for writing leaves its original content.
C8_FailFastLeavesPrefix ==
    /\ (pc = "failed") => ~ENABLED Next
    /\ (Failed /\ errAt \in {"writelines", "close_target_w"}) =>
          /\ WriteBegun
          /\ IsPrefix(fs[TargetPath], writelines(result, linesep))
    /\ (Failed /\ errAt = "writelines") =>
          fs[TargetPath] # writelines(result, linesep)
    /\ (Failed /\ errAt = "open_target_w") =>
          /\ ~WriteBegun
          /\ fs[TargetPath] = fs0[TargetPath]

C8_Witness ==
    /\ Failed
    /\ errAt = "writelines"
    /\ fs[TargetPath] # <<>>
    /\ fs[TargetPath] # fs0[TargetPath]
    /\ Len(fs[TargetPath]) < Len(writelines(result, linesep))

\* C9: the file operations of a run happen in the script's order; once the
\* target is open for writing both files have been read in full, no read
\* handle is open, and the variables read from the files no longer change.
C9_ReadBeforeWrite ==
    /\ IsPrefix(log, Order)
    /\ WriteBegun =>
          /\ lines = T0
          /\ handlers = S0
          /\ \A h \in handles : h.mode = "w"

C9_Witness ==
    /\ pc = "writelines"
    /\ handles = {Handle(TargetPath, "w")}
    /\ fs[TargetPath] = <<>>
    /\ Len(lines) = 2
    /\ Len(handlers) = 2

\* C10: at most one handle is open at any time, none between two statements
\* and none when the run has ended, however it ended.
C10_HandlesReleased ==
    /\ Cardinality(handles) <= 1
    /\ (pc \in {"open_target_r", "open_insertion_r", "build", "open_target_w",
                "print", "done", "failed"}) => handles = {}
    /\ (pc \in {"read_target", "close_target_r"}) =>
          handles = {Handle(TargetPath, "r")}
    /\ (pc \in {"read_insertion", "close_insertion_r"}) =>
          handles = {Handle(InsertionPath, "r")}
    /\ (pc \in {"writelines", "close_target_w"}) =>
          handles = {Handle(TargetPath, "w")}

C10_Witness ==
    /\ pc = "failed"
    /\ err = "DecodeError"
    /\ errAt = "read_insertion"
    /\ handles = {}

====
